---- MODULE Spec2Model ----
(***************************************************************************)
(* Model of pkg/video/openai_sora_client.go: the OpenAISoraClient, its     *)
(* two operations GenerateVideo and GetTaskStatus, the multipart form the  *)
(* first one submits and the translation of the provider's JSON reply into *)
(* a VideoResult.                                                          *)
(*                                                                         *)
(* A call is split where the code blocks: the part up to HTTPClient.Do     *)
(* (building and sending the request) and the part after it (reading the   *)
(* reply and returning).  Between the two, other calls on the same client  *)
(* may run.                                                                *)
(***************************************************************************)
EXTENDS Integers, Sequences, FiniteSets, TLC

VARIABLES cfg,    \* the client's fields BaseURL, APIKey, Model
          pc,     \* per call: "idle", "waiting" (inside HTTPClient.Do), "done"
          op,     \* per call: which method was invoked
          args,   \* per call: the arguments of the invocation
          req,    \* per call: the request handed to HTTPClient.Do
          resp,   \* per call: what HTTPClient.Do and io.ReadAll produced
          ret,    \* per call: the returned (*VideoResult, error)
          sent    \* per call: number of requests handed to HTTPClient.Do

vars == <<cfg, pc, op, args, req, resp, ret, sent>>

----------------------------------------------------------------------------
(* Bounds of the model *)

MaxOpts == 2      \* longest list of option mutators
NumCalls == 2     \* number of concurrent calls in the concurrent model

----------------------------------------------------------------------------
(* Program constants *)

DefaultDuration == 4
StatusOK == 200
StatusCreated == 201

----------------------------------------------------------------------------
(* VideoOptions and the option mutators *)

BaseOptions == [Model |-> "", Duration |-> DefaultDuration, Resolution |-> ""]

\* A VideoOption is a function that mutates the options value; the ones
\* modelled set one field.
WithDuration(d) == [field |-> "Duration", num |-> d, str |-> ""]
WithResolution(r) == [field |-> "Resolution", num |-> 0, str |-> r]
WithModel(m) == [field |-> "Model", num |-> 0, str |-> m]

ApplyOption(opt, options) ==
    CASE opt.field = "Duration" -> [options EXCEPT !.Duration = opt.num]
      [] opt.field = "Resolution" -> [options EXCEPT !.Resolution = opt.str]
      [] opt.field = "Model" -> [options EXCEPT !.Model = opt.str]

RECURSIVE ApplyOptionsFrom(_, _, _)
ApplyOptionsFrom(opts, i, options) ==
    IF i > Len(opts) THEN options
    ELSE ApplyOptionsFrom(opts, i + 1, ApplyOption(opts[i], options))

\* options := &VideoOptions{Duration: 4}; for _, opt := range opts { opt(options) }
ApplyOptions(opts) == ApplyOptionsFrom(opts, 1, BaseOptions)

----------------------------------------------------------------------------
(* fmt.Sprintf("%d", n) *)

DigitChar(d) ==
    CASE d = 0 -> "0" [] d = 1 -> "1" [] d = 2 -> "2" [] d = 3 -> "3"
      [] d = 4 -> "4" [] d = 5 -> "5" [] d = 6 -> "6" [] d = 7 -> "7"
      [] d = 8 -> "8" [] d = 9 -> "9"

RECURSIVE FormatNat(_)
FormatNat(n) ==
    IF n < 10 THEN DigitChar(n)
    ELSE FormatNat(n \div 10) \o DigitChar(n % 10)

SprintfD(n) == IF n < 0 THEN "-" \o FormatNat(0 - n) ELSE FormatNat(n)

----------------------------------------------------------------------------
(* The multipart form: the fields in the order WriteField wrote them *)

Field(name, value) == [name |-> name, value |-> value]

SelectModel(defaultModel, options) ==
    IF options.Model # "" THEN options.Model ELSE defaultModel

\* BuildForm with the duration test written as >= 0
BuildFormSecondsAtZero(model, prompt, imageURL, options) ==
    <<Field("model", model), Field("prompt", prompt)>>
    \o (IF imageURL # "" THEN <<Field("input_reference", imageURL)>> ELSE <<>>)
    \o (IF options.Duration >= 0
        THEN <<Field("seconds", SprintfD(options.Duration))>> ELSE <<>>)
    \o (IF options.Resolution # ""
        THEN <<Field("size", options.Resolution)>> ELSE <<>>)

BuildForm(model, prompt, imageURL, options) ==
    <<Field("model", model), Field("prompt", prompt)>>
    \o (IF imageURL # "" THEN <<Field("input_reference", imageURL)>> ELSE <<>>)
    \o (IF options.Duration > 0
        THEN <<Field("seconds", SprintfD(options.Duration))>> ELSE <<>>)
    \o (IF options.Resolution # ""
        THEN <<Field("size", options.Resolution)>> ELSE <<>>)

----------------------------------------------------------------------------
(* http.NewRequest: fails when the URL does not parse *)

GoodBase == "https://api.example/v1"
BadBase == "://api.example/v1"        \* url.Parse: missing protocol scheme
GoodTask == "t1"
BadTask == "%zz"                      \* url.Parse: invalid URL escape

UnparsableURLs ==
    {BadBase \o "/videos"}
    \cup {b \o "/videos/" \o BadTask : b \in {GoodBase, BadBase}}
    \cup {BadBase \o "/videos/" \o GoodTask}

NewRequestFails(url) == url \in UnparsableURLs

NoForm == <<>>
NoReq == [method |-> "", url |-> "", auth |-> "", form |-> NoForm]

----------------------------------------------------------------------------
(* The reply body and json.Unmarshal into OpenAISoraResponse *)

JStr(s) == [t |-> "str", s |-> s]
JNum(s) == [t |-> "num", s |-> s]
JNull == [t |-> "null", s |-> ""]

\* the JSON type each member of OpenAISoraResponse decodes from; nested
\* members are named by their path
ExpectedType ==
    [k \in {"id", "status", "video_url", "video.url", "error.message",
            "progress", "error"} |->
        CASE k = "progress" -> "num"
          [] k = "error" -> "obj"
          [] OTHER -> "str"]

MalformedBody == [syntax |-> "malformed", members |-> <<>>]
NullBody == [syntax |-> "null", members |-> <<>>]
ObjectBody(members) == [syntax |-> "object", members |-> members]
NoBody == [syntax |-> "none", members |-> <<>>]

\* the decoded string member: the zero value when absent or null
Member(body, k) ==
    IF k \in DOMAIN body.members /\ body.members[k].t = "str"
    THEN body.members[k].s ELSE ""

Unmarshal(body) ==
    [err |-> \/ body.syntax = "malformed"
             \/ \E k \in DOMAIN body.members :
                   /\ body.members[k].t # "null"
                   /\ body.members[k].t # ExpectedType[k],
     ID |-> Member(body, "id"),
     Status |-> Member(body, "status"),
     VideoURL |-> Member(body, "video_url"),
     Video |-> [URL |-> Member(body, "video.url")],
     Error |-> [Message |-> Member(body, "error.message")]]

----------------------------------------------------------------------------
(* Returned values *)

NilResult == [nil |-> TRUE, TaskID |-> "", Status |-> "", Completed |-> FALSE,
              VideoURL |-> "", Error |-> ""]

NilError == [kind |-> "nil", code |-> 0, body |-> NoBody, msg |-> ""]
CreateRequestError == [kind |-> "create request", code |-> 0, body |-> NoBody, msg |-> ""]
SendRequestError == [kind |-> "send request", code |-> 0, body |-> NoBody, msg |-> ""]
ReadResponseError == [kind |-> "read response", code |-> 0, body |-> NoBody, msg |-> ""]
ParseResponseError == [kind |-> "parse response", code |-> 0, body |-> NoBody, msg |-> ""]
APIError(code, body) == [kind |-> "API error", code |-> code, body |-> body, msg |-> ""]
OpenAIError(msg) == [kind |-> "openai error", code |-> 0, body |-> NoBody, msg |-> msg]

Return(result, err) == [result |-> result, err |-> err]
NoRet == [result |-> NilResult, err |-> [NilError EXCEPT !.kind = "none"]]

\* ResolveVideoURL with the two tests in the other order
ResolveVideoURLNestedFirst(result) ==
    IF result.Video.URL # "" THEN result.Video.URL
    ELSE IF result.VideoURL # "" THEN result.VideoURL
    ELSE ""

\* the video_url member first, the nested video.url as the fallback
ResolveVideoURL(result) ==
    IF result.VideoURL # "" THEN result.VideoURL
    ELSE IF result.Video.URL # "" THEN result.Video.URL
    ELSE ""

\* IsCompleted comparing without regard to the first letter's case
IsCompletedAnyCase(status) == status \in {"completed", "Completed"}

IsCompleted(status) == status = "completed"

\* what HTTPClient.Do and io.ReadAll hand back
NoResp == [doErr |-> FALSE, readErr |-> FALSE, code |-> 0, body |-> NoBody]
DoError == [doErr |-> TRUE, readErr |-> FALSE, code |-> 0, body |-> NoBody]
ReadError(code) == [doErr |-> FALSE, readErr |-> TRUE, code |-> code, body |-> NoBody]
Reply(code, body) == [doErr |-> FALSE, readErr |-> FALSE, code |-> code, body |-> body]

\* GenerateVideoFinish decoding the body before it tests the status code
GenerateVideoFinishParseFirst(h) ==
    IF h.doErr THEN Return(NilResult, SendRequestError)
    ELSE IF h.readErr THEN Return(NilResult, ReadResponseError)
    ELSE LET result == Unmarshal(h.body) IN
         IF result.err THEN Return(NilResult, ParseResponseError)
         ELSE IF result.Error.Message # ""
              THEN Return(NilResult, OpenAIError(result.Error.Message))
         ELSE IF h.code # StatusOK /\ h.code # StatusCreated
              THEN Return(NilResult, APIError(h.code, h.body))
         ELSE Return([nil |-> FALSE,
                      TaskID |-> result.ID,
                      Status |-> result.Status,
                      Completed |-> IsCompleted(result.Status),
                      VideoURL |-> ResolveVideoURL(result),
                      Error |-> ""],
                     NilError)

\* GenerateVideoFinish carrying the provider's message in the VideoResult
GenerateVideoFinishAsData(h) ==
    IF h.doErr THEN Return(NilResult, SendRequestError)
    ELSE IF h.readErr THEN Return(NilResult, ReadResponseError)
    ELSE IF h.code # StatusOK /\ h.code # StatusCreated
         THEN Return(NilResult, APIError(h.code, h.body))
    ELSE LET result == Unmarshal(h.body) IN
         IF result.err THEN Return(NilResult, ParseResponseError)
         ELSE Return([nil |-> FALSE,
                      TaskID |-> result.ID,
                      Status |-> result.Status,
                      Completed |-> IsCompleted(result.Status),
                      VideoURL |-> ResolveVideoURL(result),
                      Error |-> result.Error.Message],
                     NilError)

\* GenerateVideo from HTTPClient.Do to its return
GenerateVideoFinish(h) ==
    IF h.doErr THEN Return(NilResult, SendRequestError)
    ELSE IF h.readErr THEN Return(NilResult, ReadResponseError)
    ELSE IF h.code # StatusOK /\ h.code # StatusCreated
         THEN Return(NilResult, APIError(h.code, h.body))
    ELSE LET result == Unmarshal(h.body) IN
         IF result.err THEN Return(NilResult, ParseResponseError)
         ELSE IF result.Error.Message # ""
              THEN Return(NilResult, OpenAIError(result.Error.Message))
         ELSE Return([nil |-> FALSE,
                      TaskID |-> result.ID,
                      Status |-> result.Status,
                      Completed |-> IsCompleted(result.Status),
                      VideoURL |-> ResolveVideoURL(result),
                      Error |-> ""],
                     NilError)

\* GetTaskStatusFinish failing the call on the provider's message
GetTaskStatusFinishFatal(h) ==
    IF h.doErr THEN Return(NilResult, SendRequestError)
    ELSE IF h.readErr THEN Return(NilResult, ReadResponseError)
    ELSE LET result == Unmarshal(h.body) IN
         IF result.err THEN Return(NilResult, ParseResponseError)
         ELSE IF result.Error.Message # ""
              THEN Return(NilResult, OpenAIError(result.Error.Message))
         ELSE Return([nil |-> FALSE,
                      TaskID |-> result.ID,
                      Status |-> result.Status,
                      Completed |-> IsCompleted(result.Status),
                      VideoURL |-> ResolveVideoURL(result),
                      Error |-> ""],
                     NilError)

\* GetTaskStatusFinish testing the status code as GenerateVideo does
GetTaskStatusFinishChecked(h) ==
    IF h.doErr THEN Return(NilResult, SendRequestError)
    ELSE IF h.readErr THEN Return(NilResult, ReadResponseError)
    ELSE IF h.code # StatusOK /\ h.code # StatusCreated
         THEN Return(NilResult, APIError(h.code, h.body))
    ELSE LET result == Unmarshal(h.body) IN
         IF result.err THEN Return(NilResult, ParseResponseError)
         ELSE Return([nil |-> FALSE,
                      TaskID |-> result.ID,
                      Status |-> result.Status,
                      Completed |-> IsCompleted(result.Status),
                      VideoURL |-> ResolveVideoURL(result),
                      Error |-> IF result.Error.Message # ""
                                THEN result.Error.Message ELSE ""],
                     NilError)

\* GetTaskStatusFinish dropping the error of json.Unmarshal
GetTaskStatusFinishIgnoreParse(h) ==
    IF h.doErr THEN Return(NilResult, SendRequestError)
    ELSE IF h.readErr THEN Return(NilResult, ReadResponseError)
    ELSE LET result == Unmarshal(h.body) IN
         Return([nil |-> FALSE,
                 TaskID |-> result.ID,
                 Status |-> result.Status,
                 Completed |-> IsCompleted(result.Status),
                 VideoURL |-> ResolveVideoURL(result),
                 Error |-> IF result.Error.Message # ""
                           THEN result.Error.Message ELSE ""],
                NilError)

\* GetTaskStatus from HTTPClient.Do to its return
GetTaskStatusFinish(h) ==
    IF h.doErr THEN Return(NilResult, SendRequestError)
    ELSE IF h.readErr THEN Return(NilResult, ReadResponseError)
    ELSE LET result == Unmarshal(h.body) IN
         IF result.err THEN Return(NilResult, ParseResponseError)
         ELSE Return([nil |-> FALSE,
                      TaskID |-> result.ID,
                      Status |-> result.Status,
                      Completed |-> IsCompleted(result.Status),
                      VideoURL |-> ResolveVideoURL(result),
                      Error |-> IF result.Error.Message # ""
                                THEN result.Error.Message ELSE ""],
                     NilError)

----------------------------------------------------------------------------
(* Operations *)

NoArgs == [imageURL |-> "", prompt |-> "", opts |-> <<>>, taskID |-> ""]

\* GenerateVideoSend storing the selected model in the client (c.Model = ...)
GenerateVideoSendSharedModel(t, imageURL, prompt, opts) ==
    /\ pc[t] = "idle"
    /\ op' = [op EXCEPT ![t] = "GenerateVideo"]
    /\ args' = [args EXCEPT ![t] = [imageURL |-> imageURL, prompt |-> prompt,
                                    opts |-> opts, taskID |-> ""]]
    /\ LET options == ApplyOptions(opts)
           model == SelectModel(cfg.Model, options)
           form == BuildForm(model, prompt, imageURL, options)
           endpoint == cfg.BaseURL \o "/videos"
       IN /\ cfg' = [cfg EXCEPT !.Model = model]
          /\ IF NewRequestFails(endpoint)
             THEN /\ ret' = [ret EXCEPT ![t] = Return(NilResult, CreateRequestError)]
                  /\ pc' = [pc EXCEPT ![t] = "done"]
                  /\ UNCHANGED <<req, sent>>
             ELSE /\ req' = [req EXCEPT ![t] =
                               [method |-> "POST", url |-> endpoint,
                                auth |-> "Bearer " \o cfg.APIKey, form |-> form]]
                  /\ sent' = [sent EXCEPT ![t] = @ + 1]
                  /\ pc' = [pc EXCEPT ![t] = "waiting"]
                  /\ UNCHANGED ret
    /\ UNCHANGED resp

\* GenerateVideo up to and including HTTPClient.Do(req)
GenerateVideoSend(t, imageURL, prompt, opts) ==
    /\ pc[t] = "idle"
    /\ op' = [op EXCEPT ![t] = "GenerateVideo"]
    /\ args' = [args EXCEPT ![t] = [imageURL |-> imageURL, prompt |-> prompt,
                                    opts |-> opts, taskID |-> ""]]
    /\ LET options == ApplyOptions(opts)
           model == SelectModel(cfg.Model, options)
           form == BuildForm(model, prompt, imageURL, options)
           endpoint == cfg.BaseURL \o "/videos"
       IN IF NewRequestFails(endpoint)
          THEN /\ ret' = [ret EXCEPT ![t] = Return(NilResult, CreateRequestError)]
               /\ pc' = [pc EXCEPT ![t] = "done"]
               /\ UNCHANGED <<req, sent>>
          ELSE /\ req' = [req EXCEPT ![t] =
                            [method |-> "POST", url |-> endpoint,
                             auth |-> "Bearer " \o cfg.APIKey, form |-> form]]
               /\ sent' = [sent EXCEPT ![t] = @ + 1]
               /\ pc' = [pc EXCEPT ![t] = "waiting"]
               /\ UNCHANGED ret
    /\ UNCHANGED <<cfg, resp>>

\* GenerateVideoReturn sending the request once more after a transport failure
GenerateVideoReturnRetry(t, h) ==
    /\ pc[t] = "waiting"
    /\ op[t] = "GenerateVideo"
    /\ IF h.doErr /\ sent[t] < 2
       THEN /\ sent' = [sent EXCEPT ![t] = @ + 1]
            /\ UNCHANGED <<resp, ret, pc>>
       ELSE /\ resp' = [resp EXCEPT ![t] = h]
            /\ ret' = [ret EXCEPT ![t] = GenerateVideoFinish(h)]
            /\ pc' = [pc EXCEPT ![t] = "done"]
            /\ UNCHANGED sent
    /\ UNCHANGED <<cfg, op, args, req>>

\* GenerateVideo from the return of HTTPClient.Do to its own return
GenerateVideoReturn(t, h) ==
    /\ pc[t] = "waiting"
    /\ op[t] = "GenerateVideo"
    /\ resp' = [resp EXCEPT ![t] = h]
    /\ ret' = [ret EXCEPT ![t] = GenerateVideoFinish(h)]
    /\ pc' = [pc EXCEPT ![t] = "done"]
    /\ UNCHANGED <<cfg, op, args, req, sent>>

\* GetTaskStatus up to and including HTTPClient.Do(req)
GetTaskStatusSend(t, taskID) ==
    /\ pc[t] = "idle"
    /\ op' = [op EXCEPT ![t] = "GetTaskStatus"]
    /\ args' = [args EXCEPT ![t] = [NoArgs EXCEPT !.taskID = taskID]]
    /\ LET endpoint == cfg.BaseURL \o "/videos/" \o taskID
       IN IF NewRequestFails(endpoint)
          THEN /\ ret' = [ret EXCEPT ![t] = Return(NilResult, CreateRequestError)]
               /\ pc' = [pc EXCEPT ![t] = "done"]
               /\ UNCHANGED <<req, sent>>
          ELSE /\ req' = [req EXCEPT ![t] =
                            [method |-> "GET", url |-> endpoint,
                             auth |-> "Bearer " \o cfg.APIKey, form |-> NoForm]]
               /\ sent' = [sent EXCEPT ![t] = @ + 1]
               /\ pc' = [pc EXCEPT ![t] = "waiting"]
               /\ UNCHANGED ret
    /\ UNCHANGED <<cfg, resp>>

\* GetTaskStatus from the return of HTTPClient.Do to its own return
GetTaskStatusReturn(t, h) ==
    /\ pc[t] = "waiting"
    /\ op[t] = "GetTaskStatus"
    /\ resp' = [resp EXCEPT ![t] = h]
    /\ ret' = [ret EXCEPT ![t] = GetTaskStatusFinish(h)]
    /\ pc' = [pc EXCEPT ![t] = "done"]
    /\ UNCHANGED <<cfg, op, args, req, sent>>

----------------------------------------------------------------------------
(* Inputs *)

ImageURLs == {"", "https://x/y.png"}
Prompts == {"a cat", ""}
TaskIDs == {GoodTask, BadTask}
DefaultModels == {"sora-2", ""}

Mutators ==
    {WithDuration(d) : d \in {-1, 0, 6, 12}}
    \cup {WithResolution(r) : r \in {"", "1280x720"}}
    \cup {WithModel(m) : m \in {"", "sora-2-pro"}}

RECURSIVE SeqsUpTo(_, _)
SeqsUpTo(S, n) ==
    IF n = 0 THEN {<<>>}
    ELSE LET shorter == SeqsUpTo(S, n - 1)
         IN shorter \cup {Append(s, x) : s \in {q \in shorter : Len(q) = n - 1}, x \in S}

OptLists == SeqsUpTo(Mutators, MaxOpts)

StatusCodes == {200, 201, 404, 500}

Absent == [t |-> "absent", s |-> ""]

\* the object with the members that are present
ObjectOf(id, status, flat, nested, message, error) ==
    LET choice == [k \in {"id", "status", "video_url", "video.url",
                          "error.message", "error"} |->
                     CASE k = "id" -> id
                       [] k = "status" -> status
                       [] k = "video_url" -> flat
                       [] k = "video.url" -> nested
                       [] k = "error.message" -> message
                       [] k = "error" -> error]
        present == {k \in DOMAIN choice : choice[k] # Absent}
    IN ObjectBody([k \in present |-> choice[k]])

Bodies ==
    {MalformedBody, NullBody}
    \cup {ObjectOf(id, status, flat, nested, message, Absent) :
            id \in {Absent, JStr("t1")},
            status \in {Absent, JNum("1")}
                       \cup {JStr(s) : s \in {"completed", "Completed", "failed",
                                              "queued", "in_progress", ""}},
            flat \in {Absent, JStr(""), JStr("https://cdn/flat.mp4")},
            nested \in {Absent, JStr("https://cdn/nested.mp4")},
            message \in {Absent, JStr(""), JStr("quota exceeded")}}
    \cup {ObjectOf(JStr("t1"), JStr("failed"), Absent, Absent, Absent, JStr("not found")),
          ObjectOf(JStr("t1"), JStr("failed"), Absent, Absent, Absent, JNull)}

Replies ==
    {DoError} \cup {ReadError(c) : c \in StatusCodes}
    \cup {Reply(c, b) : c \in StatusCodes, b \in Bodies}

\* the smaller sets of inputs
ConcOptLists == {<<>>, <<WithDuration(6)>>, <<WithModel("sora-2-pro")>>}
ConcImageURLs == {"https://x/y.png"}
ConcReplies ==
    {DoError, ReadError(500)}
    \cup {Reply(c, b) :
            c \in {200, 500},
            b \in {MalformedBody,
                   ObjectOf(JStr("t1"), JStr("completed"), JStr("https://cdn/flat.mp4"),
                            Absent, Absent, Absent),
                   ObjectOf(JStr("t1"), JStr("failed"), Absent, Absent,
                            JStr("quota exceeded"), Absent)}}

----------------------------------------------------------------------------
(* Specifications *)

\* the state after NewOpenAISoraClient(baseURL, apiKey, model), no call made yet
NewOpenAISoraClient(baseURL, apiKey, model) ==
    [BaseURL |-> baseURL, APIKey |-> apiKey, Model |-> model]

InitCalls(Calls) ==
    /\ cfg \in {NewOpenAISoraClient(b, "sk-1", m) :
                  b \in {GoodBase, BadBase}, m \in DefaultModels}
    /\ pc = [t \in Calls |-> "idle"]
    /\ op = [t \in Calls |-> "none"]
    /\ args = [t \in Calls |-> NoArgs]
    /\ req = [t \in Calls |-> NoReq]
    /\ resp = [t \in Calls |-> NoResp]
    /\ ret = [t \in Calls |-> NoRet]
    /\ sent = [t \in Calls |-> 0]

\* one call at a time, every reply
Init == InitCalls({1})

Next ==
    \/ \E t \in DOMAIN pc, i \in ImageURLs, o \in ConcOptLists :
          GenerateVideoSend(t, i, "a cat", o)
    \/ \E t \in DOMAIN pc, h \in Replies : GenerateVideoReturn(t, h)
    \/ \E t \in DOMAIN pc, id \in TaskIDs : GetTaskStatusSend(t, id)
    \/ \E t \in DOMAIN pc, h \in Replies : GetTaskStatusReturn(t, h)

Spec == Init /\ [][Next]_vars

\* one call at a time, every list of option mutators
InitForm == InitCalls({1})

NextForm ==
    \/ \E t \in DOMAIN pc, i \in ImageURLs, p \in Prompts, o \in OptLists :
          GenerateVideoSend(t, i, p, o)
    \/ \E t \in DOMAIN pc, h \in ConcReplies : GenerateVideoReturn(t, h)
    \/ \E t \in DOMAIN pc, id \in TaskIDs : GetTaskStatusSend(t, id)
    \/ \E t \in DOMAIN pc, h \in ConcReplies : GetTaskStatusReturn(t, h)

SpecForm == InitForm /\ [][NextForm]_vars

\* NumCalls calls on one client, interleaved at HTTPClient.Do
InitConc == InitCalls(1 .. NumCalls)

NextConc ==
    \/ \E t \in DOMAIN pc, i \in ConcImageURLs, o \in ConcOptLists :
          GenerateVideoSend(t, i, "a cat", o)
    \/ \E t \in DOMAIN pc, h \in ConcReplies : GenerateVideoReturn(t, h)
    \/ \E t \in DOMAIN pc, id \in TaskIDs : GetTaskStatusSend(t, id)
    \/ \E t \in DOMAIN pc, h \in ConcReplies : GetTaskStatusReturn(t, h)

SpecConc == InitConc /\ [][NextConc]_vars

----------------------------------------------------------------------------
(* Properties *)

Calls == DOMAIN pc
Submitted(t) == op[t] = "GenerateVideo" /\ pc[t] \in {"waiting", "done"} /\ sent[t] > 0

\* the value the last mutator of the list gave to a field, or the default
Setters(opts, field) == {i \in DOMAIN opts : opts[i].field = field}
LastSetter(opts, field) ==
    CHOOSE i \in Setters(opts, field) : \A j \in Setters(opts, field) : j <= i
FinalDuration(opts) ==
    IF Setters(opts, "Duration") = {} THEN 4
    ELSE opts[LastSetter(opts, "Duration")].num
FinalString(opts, field) ==
    IF Setters(opts, field) = {} THEN "" ELSE opts[LastSetter(opts, field)].str

Decimal(n) == CASE n = 4 -> "4" [] n = 6 -> "6" [] n = 12 -> "12" [] OTHER -> "?"

FieldNames(form) == {form[i].name : i \in DOMAIN form}
FieldValues(form, name) == {form[i].value : i \in {j \in DOMAIN form : form[j].name = name}}

\* the form holds the field name exactly when present, and then with this value
FieldIff(form, name, present, value) ==
    IF present THEN FieldValues(form, name) = {value}
    ELSE name \notin FieldNames(form)

\* C1: the form GenerateVideo submits holds exactly: model (the override of
\* the options if non-empty, else the client's default), prompt (verbatim),
\* input_reference iff the image URL is non-empty, seconds iff the final
\* duration is > 0 (its decimal string, "4" when no option sets it), size iff
\* the resolution label is non-empty; no other field and none twice.
C1_FormFields ==
    \A t \in Calls : Submitted(t) =>
        LET form == req[t].form
            a == args[t]
            override == FinalString(a.opts, "Model")
            duration == FinalDuration(a.opts)
            size == FinalString(a.opts, "Resolution")
        IN /\ FieldNames(form) \subseteq
                  {"model", "prompt", "input_reference", "seconds", "size"}
           /\ Len(form) = Cardinality(FieldNames(form))
           /\ FieldIff(form, "model", TRUE,
                       IF override # "" THEN override ELSE cfg.Model)
           /\ FieldIff(form, "prompt", TRUE, a.prompt)
           /\ FieldIff(form, "input_reference", a.imageURL # "", a.imageURL)
           /\ FieldIff(form, "seconds", duration > 0, Decimal(duration))
           /\ FieldIff(form, "size", size # "", size)

\* a submitted call whose options first set a duration of 12 and then of 0:
\* the form has the reference image and no seconds field
C1_Witness ==
    \E t \in Calls :
        /\ Submitted(t)
        /\ args[t].opts = <<WithDuration(12), WithDuration(0)>>
        /\ args[t].imageURL # ""
        /\ "input_reference" \in FieldNames(req[t].form)
        /\ "seconds" \notin FieldNames(req[t].form)

\* a call that returned after a reply whose body was read
Replied(t) == pc[t] = "done" /\ resp[t] # NoResp /\ ~resp[t].doErr /\ ~resp[t].readErr
Returned(t) == Replied(t) /\ ~ret[t].result.nil

\* the string members of the reply's body as the provider wrote them
Flat(t) == Member(resp[t].body, "video_url")
Nested(t) == Member(resp[t].body, "video.url")
ProviderStatus(t) == Member(resp[t].body, "status")
ProviderID(t) == Member(resp[t].body, "id")
ProviderMessage(t) == Member(resp[t].body, "error.message")
Accepted(t) == resp[t].code \in {200, 201}
Parses(t) == ~Unmarshal(resp[t].body).err

\* C2: in every returned VideoResult, VideoURL is the flat video_url when
\* that is non-empty (whatever video.url holds), else the nested video.url
\* when that is non-empty, else the empty string.
C2_VideoURLPrecedence ==
    \A t \in Calls : Returned(t) =>
        /\ Flat(t) # "" => ret[t].result.VideoURL = Flat(t)
        /\ Flat(t) = "" /\ Nested(t) # "" => ret[t].result.VideoURL = Nested(t)
        /\ Flat(t) = "" /\ Nested(t) = "" => ret[t].result.VideoURL = ""

\* a GetTaskStatus result from a reply holding both locations
C2_Witness ==
    \E t \in Calls :
        /\ Returned(t) /\ op[t] = "GetTaskStatus"
        /\ Flat(t) = "https://cdn/flat.mp4" /\ Nested(t) = "https://cdn/nested.mp4"
        /\ ret[t].result.VideoURL = "https://cdn/flat.mp4"

\* C3: in every returned VideoResult, Completed is true iff the provider's
\* status is exactly "completed" (false for "Completed", "failed", "queued",
\* "in_progress" and ""), and Status and TaskID are the provider's status and
\* id verbatim.
C3_CompletedExact ==
    \A t \in Calls : Returned(t) =>
        /\ ret[t].result.Completed = (ProviderStatus(t) = "completed")
        /\ ProviderStatus(t) \in {"Completed", "failed", "queued", "in_progress", ""}
              => ~ret[t].result.Completed
        /\ ret[t].result.Status = ProviderStatus(t)
        /\ ret[t].result.TaskID = ProviderID(t)

\* a GenerateVideo result for the status "Completed": not completed
C3_Witness ==
    \E t \in Calls :
        /\ Returned(t) /\ op[t] = "GenerateVideo"
        /\ ProviderStatus(t) = "Completed" /\ ProviderID(t) = "t1"
        /\ ret[t].result.Status = "Completed"
        /\ ~ret[t].result.Completed

\* C4: when the status code of GenerateVideo's reply is neither 200 nor 201,
\* the call returns no VideoResult and the HTTP-status error with that code
\* and the raw body, whatever the body: not a parse error for a malformed
\* body, not a provider error for a populated error.message.
C4_StatusErrorBeforeParse ==
    \A t \in Calls : Replied(t) /\ op[t] = "GenerateVideo" /\ ~Accepted(t) =>
        /\ ret[t].result = NilResult
        /\ ret[t].err.kind = "API error"
        /\ ret[t].err.code = resp[t].code
        /\ ret[t].err.body = resp[t].body

\* a 500 reply with a malformed body, answered with the HTTP-status error
C4_Witness ==
    \E t \in Calls :
        /\ Replied(t) /\ op[t] = "GenerateVideo"
        /\ resp[t].code = 500 /\ resp[t].body = MalformedBody
        /\ ret[t].err = APIError(500, MalformedBody)

\* C5: when the body of GetTaskStatus's reply parses, the call returns a
\* VideoResult and no error; its Error is error.message when that is
\* non-empty and empty otherwise.
C5_PollErrorAsData ==
    \A t \in Calls : Replied(t) /\ op[t] = "GetTaskStatus" /\ Parses(t) =>
        /\ ~ret[t].result.nil
        /\ ret[t].err = NilError
        /\ ret[t].result.Error = ProviderMessage(t)

\* a GetTaskStatus result carrying the provider's message
C5_Witness ==
    \E t \in Calls :
        /\ Replied(t) /\ op[t] = "GetTaskStatus"
        /\ ProviderMessage(t) = "quota exceeded"
        /\ ret[t].result.Error = "quota exceeded"
        /\ ret[t].err = NilError

\* C6: when GenerateVideo's reply has status 200 or 201 and a body that
\* parses with a non-empty error.message, the call returns no VideoResult and
\* an error with that message, whatever id, status and video locations the
\* body holds; a VideoResult is returned only when error.message is empty.
C6_SubmitErrorFatal ==
    \A t \in Calls : Replied(t) /\ op[t] = "GenerateVideo" =>
        /\ Accepted(t) /\ Parses(t) /\ ProviderMessage(t) # "" =>
              /\ ret[t].result = NilResult
              /\ ret[t].err = OpenAIError(ProviderMessage(t))
        /\ ~ret[t].result.nil => ProviderMessage(t) = "" /\ ret[t].result.Error = ""

\* a 201 reply with an id, a completed status, a video location and a
\* message: the call fails with the message
C6_Witness ==
    \E t \in Calls :
        /\ Replied(t) /\ op[t] = "GenerateVideo"
        /\ resp[t].code = 201 /\ ProviderMessage(t) = "quota exceeded"
        /\ ProviderID(t) = "t1" /\ ProviderStatus(t) = "completed" /\ Flat(t) # ""
        /\ ret[t] = Return(NilResult, OpenAIError("quota exceeded"))

\* C8: a body that does not decode into the response shape is fatal on both
\* paths (GenerateVideo after 200/201, GetTaskStatus after any status): the
\* call returns no VideoResult, filled or not, and the parse error.
C8_ParseFailureFatal ==
    \A t \in Calls :
        /\ Replied(t) /\ ~Parses(t)
        /\ op[t] = "GenerateVideo" => Accepted(t)
        => ret[t] = Return(NilResult, ParseResponseError)

\* a GetTaskStatus call that failed on a body whose status member is a number
C8_Witness ==
    \E t \in Calls :
        /\ Replied(t) /\ op[t] = "GetTaskStatus"
        /\ resp[t].body.syntax = "object"
        /\ "status" \in DOMAIN resp[t].body.members
        /\ resp[t].body.members["status"].t = "num"
        /\ resp[t].code = 404
        /\ ret[t] = Return(NilResult, ParseResponseError)

\* a call that came back from HTTPClient.Do, with or without a reply
BackFromDo(t) == pc[t] = "done" /\ resp[t] # NoResp

\* C7: the outcome of GetTaskStatus does not depend on the status code: two
\* calls whose replies differ at most in the status code return the same
\* VideoResult or the same error; a reply outside 200/201 whose body parses
\* gives a VideoResult and no error, where GenerateVideo fails on that reply.
C7_PollIgnoresStatusCode ==
    /\ \A t1, t2 \in Calls :
          /\ BackFromDo(t1) /\ BackFromDo(t2)
          /\ op[t1] = "GetTaskStatus" /\ op[t2] = "GetTaskStatus"
          /\ resp[t1].doErr = resp[t2].doErr
          /\ resp[t1].readErr = resp[t2].readErr
          /\ resp[t1].body = resp[t2].body
          => ret[t1] = ret[t2]
    /\ \A t \in Calls :
          Replied(t) /\ op[t] = "GetTaskStatus" /\ ~Accepted(t) /\ Parses(t)
          => ~ret[t].result.nil /\ ret[t].err = NilError
    /\ \A t1, t2 \in Calls :
          /\ Replied(t1) /\ Replied(t2)
          /\ op[t1] = "GenerateVideo" /\ op[t2] = "GetTaskStatus"
          /\ resp[t1] = resp[t2] /\ ~Accepted(t1) /\ Parses(t1)
          => /\ ret[t1].result.nil /\ ret[t1].err.kind = "API error"
             /\ ~ret[t2].result.nil /\ ret[t2].err = NilError

\* two GetTaskStatus calls answered 200 and 500 with one body that parses
\* return the same VideoResult
C7_Witness ==
    \E t1, t2 \in Calls :
        /\ Replied(t1) /\ Replied(t2)
        /\ op[t1] = "GetTaskStatus" /\ op[t2] = "GetTaskStatus"
        /\ resp[t1].code = 200 /\ resp[t2].code = 500
        /\ resp[t1].body = resp[t2].body /\ Parses(t1)
        /\ ~ret[t1].result.nil /\ ret[t1] = ret[t2]

RECURSIVE SumSent(_)
SumSent(S) ==
    IF S = {} THEN 0
    ELSE LET t == CHOOSE x \in S : TRUE IN sent[t] + SumSent(S \ {t})

Started == {t \in Calls : pc[t] # "idle"}

\* C9: every call hands at most one request to the HTTP client, whatever its
\* outcome (transport failure, status error, parse failure, provider error),
\* a call that returned sends nothing more, and n calls send at most n
\* requests.
C9_AtMostOneRequest ==
    /\ \A t \in Calls : sent[t] <= 1
    /\ \A t \in Calls : pc[t] = "idle" => sent[t] = 0
    /\ \A t \in Calls : BackFromDo(t) => sent[t] = 1
    /\ SumSent(Calls) <= Cardinality(Started)

\* one call failed in transport after its one request, another returned
\* without any request because its URL did not parse
C9_Witness ==
    \E t1, t2 \in Calls :
        /\ pc[t1] = "done" /\ ret[t1].err = SendRequestError /\ sent[t1] = 1
        /\ pc[t2] = "done" /\ ret[t2].err = CreateRequestError /\ sent[t2] = 0

\* two calls of the same method with the same arguments made the same
\* request and, given the same reply, returned the same value
Determined ==
    \A t1, t2 \in Calls :
        pc[t1] # "idle" /\ pc[t2] # "idle" /\ op[t1] = op[t2] /\ args[t1] = args[t2]
        => /\ req[t1] = req[t2]
           /\ pc[t1] = "done" /\ pc[t2] = "done" /\ resp[t1] = resp[t2]
                 => ret[t1] = ret[t2]

\* C10: under any interleaving of calls on one client, no step changes the
\* client's BaseURL, APIKey or Model, and what a call sends and returns is a
\* function of its own arguments, the configuration and its own reply.
C10_NoSharedState == [][cfg' = cfg]_vars /\ []Determined

\* a call with a model override is still waiting while a later call without
\* one has sent the client's default model and returned a VideoResult
C10_Witness ==
    \E t1, t2 \in Calls :
        /\ pc[t1] = "waiting" /\ op[t1] = "GenerateVideo"
        /\ args[t1].opts = <<WithModel("sora-2-pro")>>
        /\ FieldValues(req[t1].form, "model") = {"sora-2-pro"}
        /\ pc[t2] = "done" /\ op[t2] = "GenerateVideo" /\ args[t2].opts = <<>>
        /\ FieldValues(req[t2].form, "model") = {cfg.Model}
        /\ ~ret[t2].result.nil

TypeOK ==
    /\ \A t \in DOMAIN pc : pc[t] \in {"idle", "waiting", "done"}
    /\ \A t \in DOMAIN pc : sent[t] \in 0 .. 1
====
